---- MODULE Spec2Model ----
(***************************************************************************)
(* Model of the sharkey enrollment API (pkg/server/api/enroll.go): the     *)
(* host flow (Api.Enroll / Api.EnrollHost / Api.signHost) and the user     *)
(* flow (Api.EnrollUser / proxyAuthenticated), both ending in Api.sign,    *)
(* run by concurrent requests against one issuance ledger.                 *)
(*                                                                         *)
(* Strings of the program are sequences of one-character strings, so that  *)
(* strings.HasSuffix / strings.TrimSuffix are computed, not assumed.       *)
(***************************************************************************)
EXTENDS Integers, Sequences, FiniteSets, TLC

(***************************************************************************)
(* Bounds of the model.                                                    *)
(***************************************************************************)
\* number of requests that may be in flight concurrently
NumReqs == 2

Reqs == 1 .. NumReqs

(***************************************************************************)
(* Program constants.                                                      *)
(***************************************************************************)
StatusOK == 200
StatusBadRequest == 400
StatusUnauthorized == 401
StatusForbidden == 403
StatusNotFound == 404
StatusInternalServerError == 500

\* golang.org/x/crypto/ssh: UserCert = 1, HostCert = 2
UserCert == 1
HostCert == 2

\* "no value": a nil pointer, an unset local, a response not yet written
Nil == "nil"

EmptyString == << >>

(***************************************************************************)
(* Strings.                                                                *)
(***************************************************************************)
\* strings.HasSuffix(s, suffix)
HasSuffix(s, suffix) ==
    /\ Len(s) >= Len(suffix)
    /\ SubSeq(s, Len(s) - Len(suffix) + 1, Len(s)) = suffix

\* strings.TrimSuffix(s, suffix)
TrimSuffix(s, suffix) ==
    IF HasSuffix(s, suffix) THEN SubSeq(s, 1, Len(s) - Len(suffix)) ELSE s

(***************************************************************************)
(* Names used by the requests and the configuration (config.yaml sample:   *)
(* host.example.com, proxy.example.com, strip_suffix ".example.com").      *)
(***************************************************************************)
HostA == <<"h", ".", "x">>
\* a host outside the stripped suffix
HostB == <<"o", ".", "y">>
ProxyHost == <<"p", ".", "x">>
AliasA1 == <<"a", ".", "x">>
AliasA2 == <<"b", ".", "x">>
SuffixX == <<".", "x">>

Hostnames == {HostA, HostB}

UserU == <<"u">>
\* a username that is textually a configured host (and alias key)
Usernames == {UserU, HostA}

UsernameHeader == "X-Forwarded-User"

(***************************************************************************)
(* Transport evidence: r.TLS.VerifiedChains, a sequence of chains, each a  *)
(* sequence of certificates, leaf first.  A certificate is its DNS names.  *)
(***************************************************************************)
X509Cert(names) == [dnsNames |-> names]

\* the wildcard name *.y
Wildcard == <<"*", ".", "y">>

LeafCerts == {X509Cert({HostA}), X509Cert({Wildcard}), X509Cert({ProxyHost})}

CACert == X509Cert({})

VerifiedChainsInputs == {<< >>} \cup {<< <<leaf, CACert>> >> : leaf \in LeafCerts}

\* the index of the first "." of s, or 0
RECURSIVE IndexDot(_, _)
IndexDot(s, i) ==
    IF i > Len(s) THEN 0
    ELSE IF s[i] = "." THEN i
    ELSE IndexDot(s, i + 1)

\* crypto/x509 matchHostnames for one pattern: equal, or a pattern "*.rest"
\* whose rest equals the host after its first label
MatchHostname(pattern, host) ==
    \/ pattern = host
    \/ /\ Len(pattern) >= 2
       /\ pattern[1] = "*"
       /\ pattern[2] = "."
       /\ IndexDot(host, 1) > 1
       /\ SubSeq(host, IndexDot(host, 1), Len(host)) = Tail(pattern)

\* x509.Certificate.VerifyHostname(h) == nil
VerifyHostname(cert, h) ==
    \E p \in cert.dnsNames : MatchHostname(p, h)

\* clientAuthenticated(r)
clientAuthenticated(chains) == Len(chains) > 0

\* clientHostnameMatches accepting any verified leaf
clientHostnameMatches_AnyLeaf(hostname, chains) ==
    IF Len(chains) = 0 THEN FALSE
    ELSE chains[1][1].dnsNames # {}

\* clientHostnameMatches(hostname, r)
clientHostnameMatches(hostname, chains) ==
    IF Len(chains) = 0 THEN FALSE
    ELSE VerifyHostname(chains[1][1], hostname)

(***************************************************************************)
(* Request headers: r.Header.Get(name) is "" for a missing header.         *)
(***************************************************************************)
\* r.Header: the headers present, each with its value
NoHeaders == [n \in {} |-> EmptyString]

HeaderInputs ==
    {NoHeaders} \cup
        {[n \in {UsernameHeader} |-> v] : v \in {EmptyString} \cup Usernames}

\* r.Header.Get(name)
HeaderGet(h, name) == IF name \in DOMAIN h THEN h[name] ELSE EmptyString

(***************************************************************************)
(* Request bodies and public keys.  A body is the list of the fields of    *)
(* its first line; an authorized-key line is "<type> <base64 blob> ...".   *)
(***************************************************************************)
\* the key blobs that decode to a key, with the type they encode
KeyBlobs == [AAAAB3 |-> "ssh-rsa", AAAAC3 |-> "ssh-ed25519"]

PublicKey(type, blob) == [type |-> type, blob |-> blob]

\* the nil ssh.PublicKey
NoKey == PublicKey("", "")

NoKeyFound == "ssh: no key found"
ReadFailed == "unexpected EOF"

Body(readErr, fields) == [readErr |-> readErr, fields |-> fields]

BodyInputs ==
    { Body(Nil, <<"ssh-rsa", "AAAAB3", "root@host">>),
      Body(Nil, <<"ssh-ed25519", "AAAAC3">>),
      Body(Nil, <<"-----BEGIN">>),
      Body(ReadFailed, << >>) }

\* ssh.ParseAuthorizedKey on the fields of the line: the field after the
\* first must decode to a key; if it does not, the first field is taken as
\* options and the field after the next one must decode.  The key's type is
\* the one its blob encodes.
ParseAuthorizedKey(fields) ==
    IF Len(fields) >= 2 /\ fields[2] \in DOMAIN KeyBlobs
    THEN [pubkey |-> PublicKey(KeyBlobs[fields[2]], fields[2]), err |-> Nil]
    ELSE IF Len(fields) >= 3 /\ fields[3] \in DOMAIN KeyBlobs
    THEN [pubkey |-> PublicKey(KeyBlobs[fields[3]], fields[3]), err |-> Nil]
    ELSE [pubkey |-> NoKey, err |-> NoKeyFound]

\* readPubkey(r)
readPubkey(body) ==
    IF body.readErr # Nil
    THEN [pubkey |-> NoKey, err |-> body.readErr]
    ELSE ParseAuthorizedKey(body.fields)

(***************************************************************************)
(* Configuration (config.Config), read-only after startup.                 *)
(***************************************************************************)
\* *config.AuthenticatingProxy; isNil is the nil pointer
AuthenticatingProxy(isNil, hostname, header) ==
    [isNil |-> isNil, Hostname |-> hostname, UsernameHeader |-> header]

NoProxy == AuthenticatingProxy(TRUE, EmptyString, "")

SampleProxy == AuthenticatingProxy(FALSE, ProxyHost, UsernameHeader)

\* host_cert_duration: 168h, user_cert_duration: 24h
Dur168h == <<"1", "6", "8", "h">>
Dur24h == <<"2", "4", "h">>

SampleExtensions == <<"permit-pty", "permit-user-rc", "permit-pty">>

Config(ap, suffix, aliases, hostDur, userDur, exts) ==
    [ AuthenticatingProxy |-> ap,
      StripSuffix |-> suffix,
      Aliases |-> aliases,
      HostCertDuration |-> hostDur,
      UserCertDuration |-> userDur,
      SSH |-> [UserCertExtensions |-> exts] ]

\* aliases: { "host.example.com": [alias1, alias2] }
SampleAliases == [h \in {HostA} |-> <<AliasA1, AliasA2>>]

\* the configurations the server is started with
Configs ==
    { Config(ap, SuffixX, SampleAliases, Dur168h, Dur24h, SampleExtensions) :
        ap \in {NoProxy, SampleProxy} }

\* a server without aliases, without extensions
NoAliases == [h \in {} |-> << >>]
NoExtensions == << >>

\* durations below and beside a whole second, and one time.ParseDuration
\* rejects (there is no unit "d")
Dur500ms == <<"5", "0", "0", "m", "s">>
Dur1500ms == <<"1", ".", "5", "s">>
Dur1d == <<"1", "d">>

\* the configurations of the policy checks: behind the proxy, every
\* combination of suffix (none, ".x", a whole hostname), aliases, durations
\* and extensions
PolicyConfigs ==
    { Config(SampleProxy, suffix, aliases, hostDur, userDur, exts) :
        suffix \in {EmptyString, SuffixX, HostB},
        aliases \in {NoAliases, SampleAliases},
        hostDur \in {Dur168h, Dur500ms, Dur1d},
        userDur \in {Dur24h, Dur1500ms, Dur1d},
        exts \in {NoExtensions, SampleExtensions} }

(***************************************************************************)
(* time.ParseDuration, in milliseconds: an optional sign, then "0" or one  *)
(* or more groups of a decimal number (with an optional fraction) followed *)
(* by a unit.  The units below one millisecond (ns, us) are outside the    *)
(* model: no duration of the model uses them.                              *)
(***************************************************************************)
Digits ==
    [c \in {"0", "1", "2", "3", "4", "5", "6", "7", "8", "9"} |->
        CASE c = "0" -> 0 [] c = "1" -> 1 [] c = "2" -> 2 [] c = "3" -> 3
          [] c = "4" -> 4 [] c = "5" -> 5 [] c = "6" -> 6 [] c = "7" -> 7
          [] c = "8" -> 8 [] c = "9" -> 9]

\* unitMap, in milliseconds; 0 for a unit the map does not have
UnitMillis(u) ==
    CASE u = <<"h">> -> 3600000
      [] u = <<"m">> -> 60000
      [] u = <<"s">> -> 1000
      [] u = <<"m", "s">> -> 1
      [] OTHER -> 0

InvalidDuration == "time: invalid duration"

\* leadingInt: the digits at the front of s, as [n, rest]
RECURSIVE LeadingInt(_, _)
LeadingInt(s, n) ==
    IF s # << >> /\ Head(s) \in DOMAIN Digits
    THEN LeadingInt(Tail(s), 10 * n + Digits[Head(s)])
    ELSE [n |-> n, rest |-> s]

\* leadingFraction: the digits at the front of s as the fraction f / scale
RECURSIVE LeadingFraction(_, _, _)
LeadingFraction(s, f, scale) ==
    IF s # << >> /\ Head(s) \in DOMAIN Digits
    THEN LeadingFraction(Tail(s), 10 * f + Digits[Head(s)], 10 * scale)
    ELSE [f |-> f, scale |-> scale, rest |-> s]

\* the unit at the front of s: everything up to the next "." or digit
RECURSIVE UnitRun(_, _)
UnitRun(s, u) ==
    IF s # << >> /\ Head(s) # "." /\ Head(s) \notin DOMAIN Digits
    THEN UnitRun(Tail(s), Append(u, Head(s)))
    ELSE [u |-> u, rest |-> s]

\* the groups "<number><unit>" of s, summed into d
RECURSIVE ParseGroups(_, _)
ParseGroups(s, d) ==
    IF s = << >> THEN [d |-> d, err |-> Nil]
    ELSE IF Head(s) # "." /\ Head(s) \notin DOMAIN Digits
    THEN [d |-> 0, err |-> InvalidDuration]
    ELSE LET li == LeadingInt(s, 0)
             pre == li.rest # s
             dot == li.rest # << >> /\ Head(li.rest) = "."
             lf == IF dot THEN LeadingFraction(Tail(li.rest), 0, 1)
                   ELSE [f |-> 0, scale |-> 1, rest |-> li.rest]
             post == dot /\ lf.rest # Tail(li.rest)
             ur == UnitRun(lf.rest, << >>)
             unit == UnitMillis(ur.u)
         IN IF (~pre /\ ~post) \/ ur.u = << >> \/ unit = 0
            THEN [d |-> 0, err |-> InvalidDuration]
            ELSE ParseGroups(ur.rest,
                             d + li.n * unit + ((lf.f * unit) \div lf.scale))

ParseDuration(s) ==
    LET neg == s # << >> /\ Head(s) = "-"
        body == IF s # << >> /\ Head(s) \in {"-", "+"} THEN Tail(s) ELSE s
    IN IF body = <<"0">> THEN [d |-> 0, err |-> Nil]
       ELSE IF body = << >> THEN [d |-> 0, err |-> InvalidDuration]
       ELSE LET g == ParseGroups(body, 0) IN
            IF g.err # Nil THEN g
            ELSE [d |-> IF neg THEN 0 - g.d ELSE g.d, err |-> Nil]

UnknownCertType == "unknown cert type"

\* getDurationForCertType with the two durations exchanged
getDurationForCertType_Exchanged(cfg, certType) ==
    CASE certType = HostCert -> ParseDuration(cfg.UserCertDuration)
      [] certType = UserCert -> ParseDuration(cfg.HostCertDuration)
      [] OTHER -> [d |-> 0, err |-> UnknownCertType]

\* getDurationForCertType(cfg, certType)
getDurationForCertType(cfg, certType) ==
    CASE certType = HostCert -> ParseDuration(cfg.HostCertDuration)
      [] certType = UserCert -> ParseDuration(cfg.UserCertDuration)
      [] OTHER -> [d |-> 0, err |-> UnknownCertType]

\* the elements of a sequence
Range(q) == {q[i] : i \in DOMAIN q}

\* getPermissionsForCertType without the switch on the certificate type
getPermissionsForCertType_AnyType(cfg, certType) ==
    IF Len(cfg.UserCertExtensions) > 0
    THEN [Extensions |-> [e \in Range(cfg.UserCertExtensions) |-> ""]]
    ELSE [Extensions |-> [e \in {} |-> ""]]

\* getPermissionsForCertType(cfg, certType): the Extensions map, as the
\* function from its keys to ""
getPermissionsForCertType(cfg, certType) ==
    IF certType = UserCert /\ Len(cfg.UserCertExtensions) > 0
    THEN [Extensions |-> [e \in Range(cfg.UserCertExtensions) |-> ""]]
    ELSE [Extensions |-> [e \in {} |-> ""]]

(***************************************************************************)
(* Certificates.                                                           *)
(***************************************************************************)
\* the zero ssh.Certificate
NoCert ==
    [ Nonce |-> Nil, Key |-> NoKey, Serial |-> 0, CertType |-> 0,
      KeyId |-> EmptyString, ValidPrincipals |-> << >>,
      ValidAfter |-> 0, ValidBefore |-> 0,
      Permissions |-> [Extensions |-> [e \in {} |-> ""]],
      Signature |-> Nil ]

\* time.Time.Unix() of a time in milliseconds: whole seconds
Unix(t) == t \div 1000

RandFailed == "rand: entropy source failed"
SignFailed == "ssh: signer failed"

\* the outcomes of rand.Read and of the signer, per call of sign
RandErrs == {Nil, RandFailed}
SignErrs == {Nil, SignFailed}

\* sign with the template's Serial left unset
sign_SerialUnset(cfg, keyId, principals, serial, certType, pubkey, startTime, randErr, signErr) ==
    LET duration == getDurationForCertType(cfg, certType)
        template ==
            [ Nonce |-> "random", Key |-> pubkey, Serial |-> 0,
              CertType |-> certType, KeyId |-> keyId,
              ValidPrincipals |-> principals,
              ValidAfter |-> Unix(startTime),
              ValidBefore |-> Unix(startTime + duration.d),
              Permissions |-> getPermissionsForCertType(cfg.SSH, certType),
              Signature |-> Nil ]
    IN IF randErr # Nil THEN [cert |-> NoCert, err |-> randErr, stage |-> "nonce"]
       ELSE IF duration.err # Nil
       THEN [cert |-> NoCert, err |-> duration.err, stage |-> "duration"]
       ELSE IF signErr # Nil
       THEN [cert |-> NoCert, err |-> signErr, stage |-> "signature"]
       ELSE [cert |-> [template EXCEPT !.Signature = "ca"], err |-> Nil,
             stage |-> Nil]

\* Api.sign(keyId, principals, serial, certType, pubkey); startTime is what
\* time.Now() returns (in milliseconds), randErr and signErr are what
\* rand.Read and Certificate.SignCert return in this call
sign(cfg, keyId, principals, serial, certType, pubkey, startTime, randErr, signErr) ==
    LET duration == getDurationForCertType(cfg, certType)
        template ==
            [ Nonce |-> "random", Key |-> pubkey, Serial |-> serial,
              CertType |-> certType, KeyId |-> keyId,
              ValidPrincipals |-> principals,
              ValidAfter |-> Unix(startTime),
              ValidBefore |-> Unix(startTime + duration.d),
              Permissions |-> getPermissionsForCertType(cfg.SSH, certType),
              Signature |-> Nil ]
    IN IF randErr # Nil THEN [cert |-> NoCert, err |-> randErr, stage |-> "nonce"]
       ELSE IF duration.err # Nil
       THEN [cert |-> NoCert, err |-> duration.err, stage |-> "duration"]
       ELSE IF signErr # Nil
       THEN [cert |-> NoCert, err |-> signErr, stage |-> "signature"]
       ELSE [cert |-> [template EXCEPT !.Signature = "ca"], err |-> Nil,
             stage |-> Nil]

\* signHost passing a literal 0 where the serial belongs
signHost_SerialDropped(cfg, hostname, serial, pubkey, startTime, randErr, signErr) ==
    LET p1 == <<hostname>>
        p2 == IF cfg.StripSuffix # EmptyString /\ HasSuffix(hostname, cfg.StripSuffix)
              THEN Append(p1, TrimSuffix(hostname, cfg.StripSuffix))
              ELSE p1
        p3 == IF hostname \in DOMAIN cfg.Aliases
              THEN p2 \o cfg.Aliases[hostname]
              ELSE p2
    IN sign(cfg, hostname, p3, 0, HostCert, pubkey, startTime, randErr, signErr)

\* signHost appending the aliases before the stripped hostname
signHost_AliasesFirst(cfg, hostname, serial, pubkey, startTime, randErr, signErr) ==
    LET p1 == <<hostname>>
        p2 == IF hostname \in DOMAIN cfg.Aliases
              THEN p1 \o cfg.Aliases[hostname]
              ELSE p1
        p3 == IF cfg.StripSuffix # EmptyString /\ HasSuffix(hostname, cfg.StripSuffix)
              THEN Append(p2, TrimSuffix(hostname, cfg.StripSuffix))
              ELSE p2
    IN sign(cfg, hostname, p3, serial, HostCert, pubkey, startTime, randErr, signErr)

\* Api.signHost(hostname, serial, pubkey)
signHost(cfg, hostname, serial, pubkey, startTime, randErr, signErr) ==
    LET p1 == <<hostname>>
        p2 == IF cfg.StripSuffix # EmptyString /\ HasSuffix(hostname, cfg.StripSuffix)
              THEN Append(p1, TrimSuffix(hostname, cfg.StripSuffix))
              ELSE p1
        p3 == IF hostname \in DOMAIN cfg.Aliases
              THEN p2 \o cfg.Aliases[hostname]
              ELSE p2
    IN sign(cfg, hostname, p3, serial, HostCert, pubkey, startTime, randErr, signErr)

\* encodeCert(certificate): "<key type>-cert-v01@openssh.com <base64>\n"
encodeCert(certificate) ==
    [ kind |-> "cert", text |-> certificate.Key.type,
      suffix |-> "-cert-v01@openssh.com", cert |-> certificate ]

\* the body http.Error writes: the message
ErrorBody(msg) ==
    [kind |-> "error", text |-> msg, suffix |-> "", cert |-> NoCert]

NoBody == [kind |-> "none", text |-> "", suffix |-> "", cert |-> NoCert]

(***************************************************************************)
(* State.                                                                  *)
(*   conf        the configuration the server was started with             *)
(*   now         the wall clock time.Now() reads, in milliseconds          *)
(*   ledger      the issuance ledger: the set of IssuanceRecords           *)
(*   nextSerial  the ledger's next serial                                  *)
(*   req         per request: the position of its handler (pc), what it    *)
(*               read from the request, the handler's locals, the response *)
(*               (status, respBody) and the trace of its log entries and   *)
(*               response writes, in order                                 *)
(***************************************************************************)
VARIABLES conf, now, ledger, nextSerial, req

vars == <<conf, now, ledger, nextSerial, req>>

IdleReq ==
    [ pc |-> "idle", flow |-> Nil,
      hostname |-> EmptyString, chains |-> << >>,
      header |-> NoHeaders, body |-> Body(Nil, << >>),
      user |-> EmptyString, pubkey |-> NoKey, id |-> 0,
      status |-> 0, respBody |-> NoBody, trace |-> << >>,
      failed |-> Nil, recCalls |-> 0, signCalls |-> 0 ]

\* the clock readings of the model: 1.6 s and 2 s after the epoch
ClockA == 1600
ClockB == 2000

Init ==
    /\ conf \in Configs
    /\ now = ClockA
    /\ ledger = {}
    /\ nextSerial = 1
    /\ req = [r \in Reqs |-> IdleReq]

(***************************************************************************)
(* The issuance ledger (storage.RecordIssuance): one atomic insert that    *)
(* allocates the next serial and records the request, or a storage error   *)
(* that records nothing.  storageErr is the outcome of the storage I/O.    *)
(***************************************************************************)
StorageFailed == "storage: insert failed"

StorageErrs == {Nil, StorageFailed}

IssuanceRecord(serial, certType, identity, pubkey) ==
    [serial |-> serial, cert_type |-> certType, identity |-> identity,
     public_key |-> pubkey]

RecordIssuance(certType, identity, pubkey, storageErr) ==
    IF storageErr # Nil
    THEN [id |-> 0, err |-> storageErr, ledger |-> ledger,
          nextSerial |-> nextSerial]
    ELSE [id |-> nextSerial, err |-> Nil,
          ledger |-> ledger \cup
              {IssuanceRecord(nextSerial, certType, identity, pubkey)},
          nextSerial |-> nextSerial + 1]

(***************************************************************************)
(* Responses and log entries.                                              *)
(***************************************************************************)
Method == "POST"

\* the request URL of each flow
HostURL(hostname) == <<"/enroll/">> \o hostname
UserURL == <<"/enroll_user">>

\* a log entry; fields is whether it carries method, url and code
LogEntry(msg, fields, method, url, code, err) ==
    [ev |-> "log", msg |-> msg, fields |-> fields, method |-> method,
     url |-> url, code |-> code, err |-> err]

\* a write of the response: status and body
WriteEntry(code) ==
    [ev |-> "write", msg |-> "", fields |-> FALSE, method |-> "",
     url |-> << >>, code |-> code, err |-> Nil]

\* http.Error(w, msg, code), ending the handler
httpError(q, msg, code) ==
    [q EXCEPT !.status = code, !.respBody = ErrorBody(msg),
              !.trace = Append(@, WriteEntry(code)), !.pc = "done"]

\* logHttpError(r, w, err, code, logger), ending the handler
logHttpError(q, url, err, code) ==
    httpError(
        [q EXCEPT !.trace =
            Append(@, LogEntry("logHttpError", TRUE, Method, url, code, err))],
        err, code)

\* w.Write(cert), ending the handler's response
writeCert(q, certString) ==
    [q EXCEPT !.status = StatusOK, !.respBody = certString,
              !.trace = Append(@, WriteEntry(StatusOK))]

(***************************************************************************)
(* Host flow: Api.Enroll and Api.EnrollHost, one action per blocking step  *)
(* (the request is routed, the body is read, the ledger is written, the    *)
(* certificate is signed and returned).                                    *)
(***************************************************************************)
\* Api.Enroll, err != nil: log, then http.Error(w, err.Error(), 500)
enrollHostFailed(q, err, stage) ==
    httpError(
        [q EXCEPT !.failed = stage,
                  !.trace = Append(@,
                      LogEntry("internal error", FALSE, "", << >>, 0, Nil))],
        err, StatusInternalServerError)

\* Api.Enroll up to the call of EnrollHost: the two checks of the chain
Enroll(r) ==
    /\ req[r].pc = "idle"
    /\ \E hostname \in Hostnames, chains \in VerifiedChainsInputs :
        LET q == [req[r] EXCEPT !.flow = "host", !.hostname = hostname,
                                !.chains = chains]
        IN req' = [req EXCEPT ![r] =
                IF ~clientAuthenticated(chains)
                THEN httpError([q EXCEPT !.failed = "auth"],
                               "no client certificate provided",
                               StatusUnauthorized)
                ELSE IF ~clientHostnameMatches(hostname, chains)
                THEN httpError([q EXCEPT !.failed = "auth"],
                               "hostname does not match certificate",
                               StatusForbidden)
                ELSE [q EXCEPT !.pc = "readPubkey"]]
    /\ UNCHANGED <<conf, now, ledger, nextSerial>>

\* Api.EnrollHost: readPubkey(r)
EnrollHostReadPubkey(r) ==
    /\ req[r].pc = "readPubkey"
    /\ req[r].flow = "host"
    /\ \E body \in BodyInputs :
        LET q == [req[r] EXCEPT !.body = body]
            res == readPubkey(body)
        IN req' = [req EXCEPT ![r] =
                IF res.err # Nil
                THEN enrollHostFailed(q, res.err, "readPubkey")
                ELSE [q EXCEPT !.pubkey = res.pubkey, !.pc = "record"]]
    /\ UNCHANGED <<conf, now, ledger, nextSerial>>

\* EnrollHost going on to sign whatever RecordIssuance returned
EnrollHostRecordIssuance_ErrIgnored(r) ==
    /\ req[r].pc = "record"
    /\ req[r].flow = "host"
    /\ \E storageErr \in StorageErrs :
        LET q == [req[r] EXCEPT !.recCalls = @ + 1]
            res == RecordIssuance(HostCert, q.hostname, q.pubkey, storageErr)
        IN /\ ledger' = res.ledger
           /\ nextSerial' = res.nextSerial
           /\ req' = [req EXCEPT ![r] = [q EXCEPT !.id = res.id, !.pc = "sign"]]
    /\ UNCHANGED <<conf, now>>

\* Api.EnrollHost: c.storage.RecordIssuance(ssh.HostCert, hostname, pubkey)
EnrollHostRecordIssuance(r) ==
    /\ req[r].pc = "record"
    /\ req[r].flow = "host"
    /\ \E storageErr \in StorageErrs :
        LET q == [req[r] EXCEPT !.recCalls = @ + 1]
            res == RecordIssuance(HostCert, q.hostname, q.pubkey, storageErr)
        IN /\ ledger' = res.ledger
           /\ nextSerial' = res.nextSerial
           /\ req' = [req EXCEPT ![r] =
                IF res.err # Nil
                THEN enrollHostFailed(q, res.err, "record")
                ELSE [q EXCEPT !.id = res.id, !.pc = "sign"]]
    /\ UNCHANGED <<conf, now>>

\* EnrollHost taking the ledger record back when signing fails
EnrollHostSign_Rollback(r) ==
    /\ req[r].pc = "sign"
    /\ req[r].flow = "host"
    /\ \E randErr \in RandErrs, signErr \in SignErrs :
        LET q == [req[r] EXCEPT !.signCalls = @ + 1]
            res == signHost(conf, q.hostname, q.id, q.pubkey, now, randErr, signErr)
        IN /\ req' = [req EXCEPT ![r] =
                IF res.err # Nil
                THEN enrollHostFailed(q, res.err, res.stage)
                ELSE [writeCert(q, encodeCert(res.cert)) EXCEPT !.pc = "done"]]
           /\ ledger' = IF res.err # Nil
                        THEN {rec \in ledger : rec.serial # q.id}
                        ELSE ledger
    /\ UNCHANGED <<conf, now, nextSerial>>

\* Api.EnrollHost: signHost, encodeCert, and Api.Enroll's write of the result
EnrollHostSign(r) ==
    /\ req[r].pc = "sign"
    /\ req[r].flow = "host"
    /\ \E randErr \in RandErrs, signErr \in SignErrs :
        LET q == [req[r] EXCEPT !.signCalls = @ + 1]
            res == signHost(conf, q.hostname, q.id, q.pubkey, now, randErr, signErr)
        IN req' = [req EXCEPT ![r] =
                IF res.err # Nil
                THEN enrollHostFailed(q, res.err, res.stage)
                ELSE [writeCert(q, encodeCert(res.cert)) EXCEPT !.pc = "done"]]
    /\ UNCHANGED <<conf, now, ledger, nextSerial>>

(***************************************************************************)
(* User flow: Api.EnrollUser behind the authenticating proxy.              *)
(***************************************************************************)
\* proxyAuthenticated accepting the header whatever its value
proxyAuthenticated_NoHeaderCheck(ap, q) ==
    IF ap.isNil
    THEN [user |-> EmptyString, ok |-> FALSE,
          q |-> logHttpError(q, UserURL, "client certificates are unavailable",
                             StatusNotFound)]
    ELSE IF ~(clientAuthenticated(q.chains)
              /\ clientHostnameMatches(ap.Hostname, q.chains))
    THEN [user |-> EmptyString, ok |-> FALSE,
          q |-> logHttpError(q, UserURL, "request didn't come from proxy",
                             StatusUnauthorized)]
    ELSE IF HeaderGet(q.header, ap.UsernameHeader) = EmptyString /\ FALSE
    THEN [user |-> EmptyString, ok |-> FALSE,
          q |-> logHttpError(q, UserURL, "no username supplied",
                             StatusUnauthorized)]
    ELSE [user |-> HeaderGet(q.header, ap.UsernameHeader), ok |-> TRUE, q |-> q]

\* proxyAuthenticated answering the missing descriptor as unauthenticated
proxyAuthenticated_NilUnauthorized(ap, q) ==
    IF ap.isNil
    THEN [user |-> EmptyString, ok |-> FALSE,
          q |-> logHttpError(q, UserURL, "client certificates are unavailable",
                             StatusUnauthorized)]
    ELSE IF ~(clientAuthenticated(q.chains)
              /\ clientHostnameMatches(ap.Hostname, q.chains))
    THEN [user |-> EmptyString, ok |-> FALSE,
          q |-> logHttpError(q, UserURL, "request didn't come from proxy",
                             StatusUnauthorized)]
    ELSE IF HeaderGet(q.header, ap.UsernameHeader) = EmptyString
    THEN [user |-> EmptyString, ok |-> FALSE,
          q |-> logHttpError(q, UserURL, "no username supplied",
                             StatusUnauthorized)]
    ELSE [user |-> HeaderGet(q.header, ap.UsernameHeader), ok |-> TRUE, q |-> q]

\* proxyAuthenticated answering a leaf that is not the proxy's as forbidden
proxyAuthenticated_Forbidden(ap, q) ==
    IF ap.isNil
    THEN [user |-> EmptyString, ok |-> FALSE,
          q |-> logHttpError(q, UserURL, "client certificates are unavailable",
                             StatusNotFound)]
    ELSE IF ~clientAuthenticated(q.chains)
    THEN [user |-> EmptyString, ok |-> FALSE,
          q |-> logHttpError(q, UserURL, "request didn't come from proxy",
                             StatusUnauthorized)]
    ELSE IF ~clientHostnameMatches(ap.Hostname, q.chains)
    THEN [user |-> EmptyString, ok |-> FALSE,
          q |-> logHttpError(q, UserURL, "request didn't come from proxy",
                             StatusForbidden)]
    ELSE IF HeaderGet(q.header, ap.UsernameHeader) = EmptyString
    THEN [user |-> EmptyString, ok |-> FALSE,
          q |-> logHttpError(q, UserURL, "no username supplied",
                             StatusUnauthorized)]
    ELSE [user |-> HeaderGet(q.header, ap.UsernameHeader), ok |-> TRUE, q |-> q]

\* proxyAuthenticated(ap, w, r, logger): (user, ok), and the request with
\* the response it wrote
proxyAuthenticated(ap, q) ==
    IF ap.isNil
    THEN [user |-> EmptyString, ok |-> FALSE,
          q |-> logHttpError(q, UserURL, "client certificates are unavailable",
                             StatusNotFound)]
    ELSE IF ~(clientAuthenticated(q.chains)
              /\ clientHostnameMatches(ap.Hostname, q.chains))
    THEN [user |-> EmptyString, ok |-> FALSE,
          q |-> logHttpError(q, UserURL, "request didn't come from proxy",
                             StatusUnauthorized)]
    ELSE IF HeaderGet(q.header, ap.UsernameHeader) = EmptyString
    THEN [user |-> EmptyString, ok |-> FALSE,
          q |-> logHttpError(q, UserURL, "no username supplied",
                             StatusUnauthorized)]
    ELSE [user |-> HeaderGet(q.header, ap.UsernameHeader), ok |-> TRUE, q |-> q]

\* Api.EnrollUser: proxyAuthenticated
EnrollUser(r) ==
    /\ req[r].pc = "idle"
    /\ \E chains \in VerifiedChainsInputs, header \in HeaderInputs :
        LET q == [req[r] EXCEPT !.flow = "user", !.chains = chains,
                                !.header = header]
            res == proxyAuthenticated(conf.AuthenticatingProxy, q)
        IN req' = [req EXCEPT ![r] =
                IF ~res.ok
                THEN [res.q EXCEPT !.failed = "auth"]
                ELSE [q EXCEPT !.user = res.user, !.pc = "readPubkey"]]
    /\ UNCHANGED <<conf, now, ledger, nextSerial>>

\* EnrollUser answering an unreadable key as an internal error
EnrollUserReadPubkey_InternalError(r) ==
    /\ req[r].pc = "readPubkey"
    /\ req[r].flow = "user"
    /\ \E body \in BodyInputs :
        LET q == [req[r] EXCEPT !.body = body]
            res == readPubkey(body)
        IN req' = [req EXCEPT ![r] =
                IF res.err # Nil
                THEN logHttpError([q EXCEPT !.failed = "readPubkey"], UserURL,
                                  res.err, StatusInternalServerError)
                ELSE [q EXCEPT !.pubkey = res.pubkey, !.pc = "record"]]
    /\ UNCHANGED <<conf, now, ledger, nextSerial>>

\* Api.EnrollUser: readPubkey(r)
EnrollUserReadPubkey(r) ==
    /\ req[r].pc = "readPubkey"
    /\ req[r].flow = "user"
    /\ \E body \in BodyInputs :
        LET q == [req[r] EXCEPT !.body = body]
            res == readPubkey(body)
        IN req' = [req EXCEPT ![r] =
                IF res.err # Nil
                THEN logHttpError([q EXCEPT !.failed = "readPubkey"], UserURL,
                                  res.err, StatusBadRequest)
                ELSE [q EXCEPT !.pubkey = res.pubkey, !.pc = "record"]]
    /\ UNCHANGED <<conf, now, ledger, nextSerial>>

\* EnrollUser going on after it answered the error of RecordIssuance
EnrollUserRecordIssuance_NoReturn(r) ==
    /\ req[r].pc = "record"
    /\ req[r].flow = "user"
    /\ \E storageErr \in StorageErrs :
        LET q == [req[r] EXCEPT !.recCalls = @ + 1]
            res == RecordIssuance(UserCert, q.user, q.pubkey, storageErr)
        IN /\ ledger' = res.ledger
           /\ nextSerial' = res.nextSerial
           /\ req' = [req EXCEPT ![r] =
                IF res.err # Nil
                THEN [logHttpError([q EXCEPT !.failed = "record"], UserURL,
                                   res.err, StatusInternalServerError)
                        EXCEPT !.pc = "sign"]
                ELSE [q EXCEPT !.id = res.id, !.pc = "sign"]]
    /\ UNCHANGED <<conf, now>>

\* EnrollUser calling RecordIssuance a second time with the same arguments
EnrollUserRecordIssuance_Twice(r) ==
    /\ req[r].pc = "record"
    /\ req[r].flow = "user"
    /\ \E storageErr \in StorageErrs :
        LET q == [req[r] EXCEPT !.recCalls = @ + 2]
            res == RecordIssuance(UserCert, q.user, q.pubkey, storageErr)
        IN /\ ledger' = res.ledger \cup
                {IssuanceRecord(res.nextSerial, UserCert, q.user, q.pubkey)}
           /\ nextSerial' = res.nextSerial + 1
           /\ req' = [req EXCEPT ![r] =
                IF res.err # Nil
                THEN logHttpError([q EXCEPT !.failed = "record"], UserURL,
                                  res.err, StatusInternalServerError)
                ELSE [q EXCEPT !.id = res.nextSerial, !.pc = "sign"]]
    /\ UNCHANGED <<conf, now>>

\* EnrollUser recording the issuance as a host certificate
EnrollUserRecordIssuance_HostType(r) ==
    /\ req[r].pc = "record"
    /\ req[r].flow = "user"
    /\ \E storageErr \in StorageErrs :
        LET q == [req[r] EXCEPT !.recCalls = @ + 1]
            res == RecordIssuance(HostCert, q.user, q.pubkey, storageErr)
        IN /\ ledger' = res.ledger
           /\ nextSerial' = res.nextSerial
           /\ req' = [req EXCEPT ![r] =
                IF res.err # Nil
                THEN logHttpError([q EXCEPT !.failed = "record"], UserURL,
                                  res.err, StatusInternalServerError)
                ELSE [q EXCEPT !.id = res.id, !.pc = "sign"]]
    /\ UNCHANGED <<conf, now>>

\* Api.EnrollUser: c.storage.RecordIssuance(ssh.UserCert, user, pk)
EnrollUserRecordIssuance(r) ==
    /\ req[r].pc = "record"
    /\ req[r].flow = "user"
    /\ \E storageErr \in StorageErrs :
        LET q == [req[r] EXCEPT !.recCalls = @ + 1]
            res == RecordIssuance(UserCert, q.user, q.pubkey, storageErr)
        IN /\ ledger' = res.ledger
           /\ nextSerial' = res.nextSerial
           /\ req' = [req EXCEPT ![r] =
                IF res.err # Nil
                THEN logHttpError([q EXCEPT !.failed = "record"], UserURL,
                                  res.err, StatusInternalServerError)
                ELSE [q EXCEPT !.id = res.id, !.pc = "sign"]]
    /\ UNCHANGED <<conf, now>>

\* EnrollUser deriving the principals as signHost does
EnrollUserSign_HostPrincipals(r) ==
    /\ req[r].pc = "sign"
    /\ req[r].flow = "user"
    /\ \E randErr \in RandErrs, signErr \in SignErrs :
        LET q == [req[r] EXCEPT !.signCalls = @ + 1]
            p1 == <<q.user>>
            p2 == IF conf.StripSuffix # EmptyString /\ HasSuffix(q.user, conf.StripSuffix)
                  THEN Append(p1, TrimSuffix(q.user, conf.StripSuffix))
                  ELSE p1
            p3 == IF q.user \in DOMAIN conf.Aliases
                  THEN p2 \o conf.Aliases[q.user]
                  ELSE p2
            res == sign(conf, q.user, p3, q.id, UserCert, q.pubkey,
                        now, randErr, signErr)
        IN req' = [req EXCEPT ![r] =
                IF res.err # Nil
                THEN logHttpError([q EXCEPT !.failed = res.stage], UserURL,
                                  res.err, StatusInternalServerError)
                ELSE [writeCert(q, encodeCert(res.cert)) EXCEPT
                        !.trace = Append(@,
                            LogEntry("call EnrollUser", FALSE, "", << >>, 0, Nil)),
                        !.pc = "done"]]
    /\ UNCHANGED <<conf, now, ledger, nextSerial>>

\* Api.EnrollUser: sign, encodeCert, the write of the result and the log
EnrollUserSign(r) ==
    /\ req[r].pc = "sign"
    /\ req[r].flow = "user"
    /\ \E randErr \in RandErrs, signErr \in SignErrs :
        LET q == [req[r] EXCEPT !.signCalls = @ + 1]
            res == sign(conf, q.user, <<q.user>>, q.id, UserCert, q.pubkey,
                        now, randErr, signErr)
        IN req' = [req EXCEPT ![r] =
                IF res.err # Nil
                THEN logHttpError([q EXCEPT !.failed = res.stage], UserURL,
                                  res.err, StatusInternalServerError)
                ELSE [writeCert(q, encodeCert(res.cert)) EXCEPT
                        !.trace = Append(@,
                            LogEntry("call EnrollUser", FALSE, "", << >>, 0, Nil)),
                        !.pc = "done"]]
    /\ UNCHANGED <<conf, now, ledger, nextSerial>>

Next ==
    \E r \in Reqs :
        \/ Enroll(r)
        \/ EnrollHostReadPubkey(r)
        \/ EnrollHostRecordIssuance(r)
        \/ EnrollHostSign(r)
        \/ EnrollUser(r)
        \/ EnrollUserReadPubkey(r)
        \/ EnrollUserRecordIssuance(r)
        \/ EnrollUserSign(r)

Spec == Init /\ [][Next]_vars

(***************************************************************************)
(* One request at a time, under every configuration and clock reading:     *)
(* the specification of the properties of the signing policy.              *)
(***************************************************************************)
InitPolicy ==
    /\ conf \in PolicyConfigs
    /\ now \in {ClockA, ClockB}
    /\ ledger = {}
    /\ nextSerial = 1
    /\ req = [r \in Reqs |-> IdleReq]

NextOne ==
    \/ Enroll(1)
    \/ EnrollHostReadPubkey(1)
    \/ EnrollHostRecordIssuance(1)
    \/ EnrollHostSign(1)
    \/ EnrollUser(1)
    \/ EnrollUserReadPubkey(1)
    \/ EnrollUserRecordIssuance(1)
    \/ EnrollUserSign(1)

SpecPolicy == InitPolicy /\ [][NextOne]_vars

(***************************************************************************)
(* Properties.                                                             *)
(***************************************************************************)
\* the request was answered with a certificate
Returned(r) == req[r].status = StatusOK /\ req[r].respBody.kind = "cert"

\* the certificate the request was answered with
CertOf(r) == req[r].respBody.cert

\* the identity the request was authorized for
IdentityOf(r) == IF req[r].flow = "host" THEN req[r].hostname ELSE req[r].user

\* C1: the serials of the certificates returned to concurrent requests, of
\* either flow, are pairwise distinct, and no two ledger records share a
\* serial.
SerialsUnique ==
    /\ \A r1, r2 \in Reqs :
        (r1 # r2 /\ Returned(r1) /\ Returned(r2))
            => CertOf(r1).Serial # CertOf(r2).Serial
    /\ \A a, b \in ledger : a.serial = b.serial => a = b
    /\ Cardinality({CertOf(r).Serial : r \in {x \in Reqs : Returned(x)}})
            = Cardinality({x \in Reqs : Returned(x)})

\* every request was answered with a certificate, by both flows
SerialsUniqueWitness ==
    /\ \A r \in Reqs : Returned(r)
    /\ \E r1, r2 \in Reqs : req[r1].flow = "host" /\ req[r2].flow = "user"
    /\ Cardinality(ledger) = NumReqs

\* C2: the serial of every returned certificate is the serial RecordIssuance
\* returned to that request: not the default 0, not the serial of another
\* request, and the serial of a ledger record.
CertSerialIsAllocated ==
    \A r \in Reqs :
        Returned(r) =>
            /\ CertOf(r).Serial = req[r].id
            /\ CertOf(r).Serial # 0
            /\ req[r].recCalls = 1
            /\ \A o \in Reqs \ {r} : req[o].id # CertOf(r).Serial
            /\ \E rec \in ledger : rec.serial = CertOf(r).Serial

\* a host and a user certificate were returned, the later one with serial 2
CertSerialIsAllocatedWitness ==
    \E r1, r2 \in Reqs :
        /\ Returned(r1) /\ req[r1].flow = "host" /\ CertOf(r1).Serial = 2
        /\ Returned(r2) /\ req[r2].flow = "user" /\ CertOf(r2).Serial = 1

\* the requests whose call of RecordIssuance returned an error
RecordFailed(r) == req[r].failed = "record"

\* C3: a request whose RecordIssuance failed ends with 500, without a call
\* of sign and without a certificate; and every returned certificate's serial
\* has a ledger record.
NoCertWithoutRecord ==
    /\ \A r \in Reqs :
        (req[r].recCalls > 0 /\ req[r].id = 0) =>
            /\ RecordFailed(r)
            /\ req[r].pc = "done"
            /\ req[r].status = StatusInternalServerError
            /\ req[r].signCalls = 0
            /\ req[r].respBody.kind = "error"
    /\ \A r \in Reqs :
        Returned(r) => \E rec \in ledger : rec.serial = CertOf(r).Serial

\* RecordIssuance failed for a host request and for a user request
NoCertWithoutRecordWitness ==
    \E r1, r2 \in Reqs :
        /\ RecordFailed(r1) /\ req[r1].flow = "host"
        /\ RecordFailed(r2) /\ req[r2].flow = "user"
        /\ req[r1].status = StatusInternalServerError
        /\ req[r2].status = StatusInternalServerError

\* the request made no ledger write: it never called RecordIssuance, holds
\* no serial, and the ledger has no more records than there are requests
\* that called RecordIssuance
NoLedgerWrite(r) ==
    /\ req[r].recCalls = 0
    /\ req[r].id = 0
    /\ Cardinality(ledger) <= Cardinality({o \in Reqs : req[o].recCalls > 0})

\* the handler of the request has ended with an error response of this status
RejectedWith(r, code) ==
    /\ req[r].pc = "done"
    /\ req[r].status = code
    /\ req[r].respBody.kind = "error"

\* the leaf of the first verified chain carries a name matching h
LeafMatches(chains, h) ==
    \E n \in chains[1][1].dnsNames : MatchHostname(n, h)

\* C4: a host enrollment whose verified chain is empty is answered 401, one
\* whose chain is not empty but whose leaf does not match the claimed hostname
\* is answered 403; neither writes to the ledger.
HostRejection ==
    \A r \in Reqs :
        req[r].flow = "host" =>
            /\ req[r].chains = << >> =>
                RejectedWith(r, StatusUnauthorized) /\ NoLedgerWrite(r)
            /\ (req[r].chains # << >> /\ ~LeafMatches(req[r].chains, req[r].hostname)) =>
                RejectedWith(r, StatusForbidden) /\ NoLedgerWrite(r)

\* one host request came without a chain, another with the leaf of another
\* host
HostRejectionWitness ==
    \E r1, r2 \in Reqs :
        /\ req[r1].flow = "host" /\ req[r1].chains = << >>
        /\ req[r1].status = StatusUnauthorized
        /\ req[r2].flow = "host" /\ req[r2].chains # << >>
        /\ req[r2].hostname = HostB
        /\ req[r2].chains[1][1] = X509Cert({HostA})
        /\ req[r2].status = StatusForbidden

\* the connection of the request authenticates as the configured proxy
FromProxy(r) ==
    /\ ~conf.AuthenticatingProxy.isNil
    /\ req[r].chains # << >>
    /\ LeafMatches(req[r].chains, conf.AuthenticatingProxy.Hostname)

\* the trusted username header of the request is missing or empty
NoUsername(r) ==
    \/ conf.AuthenticatingProxy.UsernameHeader \notin DOMAIN req[r].header
    \/ req[r].header[conf.AuthenticatingProxy.UsernameHeader] = EmptyString

\* C5: a user enrollment from the proxy without a username (header missing
\* or empty) is answered 401 and writes nothing to the ledger; no USER ledger
\* record and no USER certificate has an empty identity.
ProxyHeaderRequired ==
    /\ \A r \in Reqs :
        (req[r].flow = "user" /\ FromProxy(r) /\ NoUsername(r)) =>
            RejectedWith(r, StatusUnauthorized) /\ NoLedgerWrite(r)
    /\ \A rec \in ledger :
        rec.cert_type = UserCert => rec.identity # EmptyString
    /\ \A r \in Reqs :
        (Returned(r) /\ CertOf(r).CertType = UserCert) =>
            /\ CertOf(r).KeyId # EmptyString
            /\ \A i \in DOMAIN CertOf(r).ValidPrincipals :
                CertOf(r).ValidPrincipals[i] # EmptyString

\* from the proxy, one request without the header and one with an empty one
ProxyHeaderRequiredWitness ==
    \E r1, r2 \in Reqs :
        /\ req[r1].flow = "user" /\ FromProxy(r1)
        /\ req[r1].header = NoHeaders
        /\ req[r1].status = StatusUnauthorized
        /\ req[r2].flow = "user" /\ FromProxy(r2)
        /\ UsernameHeader \in DOMAIN req[r2].header
        /\ req[r2].header[UsernameHeader] = EmptyString
        /\ req[r2].status = StatusUnauthorized

\* C6: in the user flow, without a proxy descriptor the answer is 404 whatever
\* the chain and the header are; with one, a connection that does not
\* authenticate as the proxy (no chain, or another leaf) is answered 401
\* whatever the header is; neither writes to the ledger.
UserCheckOrder ==
    \A r \in Reqs :
        req[r].flow = "user" =>
            /\ conf.AuthenticatingProxy.isNil =>
                RejectedWith(r, StatusNotFound) /\ NoLedgerWrite(r)
            /\ (~conf.AuthenticatingProxy.isNil /\ ~FromProxy(r)) =>
                RejectedWith(r, StatusUnauthorized) /\ NoLedgerWrite(r)

\* without a descriptor, a request with the proxy's chain and a username and
\* a request with neither were both answered 404
UserCheckOrderWitness ==
    /\ conf.AuthenticatingProxy.isNil
    /\ \E r1, r2 \in Reqs :
        /\ req[r1].flow = "user" /\ req[r1].status = StatusNotFound
        /\ req[r1].chains # << >>
        /\ req[r1].chains[1][1] = X509Cert({ProxyHost})
        /\ req[r1].header = [n \in {UsernameHeader} |-> UserU]
        /\ req[r2].flow = "user" /\ req[r2].status = StatusNotFound
        /\ req[r2].chains = << >>
        /\ req[r2].header = NoHeaders

\* the user request came with a verified chain whose leaf is not the proxy's
LeafNotProxy(r) ==
    /\ req[r].flow = "user"
    /\ ~conf.AuthenticatingProxy.isNil
    /\ req[r].chains # << >>
    /\ ~LeafMatches(req[r].chains, conf.AuthenticatingProxy.Hostname)

\* C7 as stated: a user enrollment with a verified chain whose leaf does not
\* match the proxy hostname is answered 403.
ProxyMismatchForbidden ==
    \A r \in Reqs : LeafNotProxy(r) => RejectedWith(r, StatusForbidden)

\* C7, amended: a user enrollment with a verified chain whose leaf does not
\* match the proxy hostname is answered 401, as a request without a chain is.
ProxyMismatchUnauthorized ==
    \A r \in Reqs :
        LeafNotProxy(r) =>
            /\ RejectedWith(r, StatusUnauthorized)
            /\ req[r].respBody.text = "request didn't come from proxy"

\* a user request with the leaf of a host and a username was answered 401
ProxyMismatchUnauthorizedWitness ==
    \E r \in Reqs :
        /\ LeafNotProxy(r)
        /\ req[r].chains[1][1] = X509Cert({HostA})
        /\ req[r].header = [n \in {UsernameHeader} |-> UserU]
        /\ req[r].status = StatusUnauthorized

\* the request was authorized and its body, read, is no parseable public key
UnparseableBody(r) ==
    /\ req[r].pc \notin {"idle", "readPubkey"}
    /\ req[r].failed # "auth"
    /\ req[r].body.readErr = Nil
    /\ ParseAuthorizedKey(req[r].body.fields).err # Nil

\* C8: an authorized host enrollment whose body is no parseable public key is
\* answered 400 and writes nothing to the ledger.
HostBadKeyIsBadRequest ==
    \A r \in Reqs :
        (req[r].flow = "host" /\ UnparseableBody(r)) =>
            RejectedWith(r, StatusBadRequest) /\ NoLedgerWrite(r)

\* C9: an authorized user enrollment whose body is no parseable public key is
\* answered 400 and writes nothing to the ledger.
UserBadKeyIsBadRequest ==
    \A r \in Reqs :
        (req[r].flow = "user" /\ UnparseableBody(r)) =>
            RejectedWith(r, StatusBadRequest) /\ NoLedgerWrite(r)

\* an authorized user request with a body that is no key was answered 400
UserBadKeyIsBadRequestWitness ==
    \E r \in Reqs :
        /\ req[r].flow = "user"
        /\ req[r].user = UserU
        /\ req[r].body = Body(Nil, <<"-----BEGIN">>)
        /\ req[r].status = StatusBadRequest

\* the texts of the internal errors
InternalErrorTexts ==
    {StorageFailed, RandFailed, SignFailed, InvalidDuration, UnknownCertType}

\* C10: a request that failed in the ledger write, the nonce, the duration or
\* the signature is answered 500 with a body that is not the text of the
\* internal error.
InternalErrorNotLeaked ==
    \A r \in Reqs :
        req[r].failed \in {"record", "nonce", "duration", "signature"} =>
            /\ RejectedWith(r, StatusInternalServerError)
            /\ req[r].respBody.text \notin InternalErrorTexts

\* the URL of the request
URLOf(r) == IF req[r].flow = "host" THEN HostURL(req[r].hostname) ELSE UserURL

\* the handler of the request has ended with an error status
Failed(r) == req[r].pc = "done" /\ req[r].status >= StatusBadRequest

\* C11: every failed request, of either flow and at every stage, has a log
\* entry with the request's method, its URL and the status, made before the
\* error response was written.
FailureLoggedBeforeResponse ==
    \A r \in Reqs :
        Failed(r) =>
            \E i, j \in DOMAIN req[r].trace :
                /\ i < j
                /\ req[r].trace[i].ev = "log"
                /\ req[r].trace[i].fields
                /\ req[r].trace[i].method = Method
                /\ req[r].trace[i].url = URLOf(r)
                /\ req[r].trace[i].code = req[r].status
                /\ req[r].trace[j].ev = "write"
                /\ req[r].trace[j].code = req[r].status

\* s is some string followed by t
EndsWith(s, t) == \E k \in 0 .. Len(s) : SubSeq(s, 1, k) \o t = s

\* the aliases configured for exactly h
AliasesOf(h) == IF h \in DOMAIN conf.Aliases THEN conf.Aliases[h] ELSE << >>

\* C12: the principals of a HOST certificate are the hostname, then (only if
\* the configured suffix is not empty and the hostname ends with it) the
\* hostname without the suffix, then the aliases of that hostname in their
\* configured order, and nothing else; suffix ".x" and aliases [a.x, b.x] of
\* h.x give [h.x, h, a.x, b.x].
HostPrincipals ==
    \A r \in Reqs :
        (Returned(r) /\ req[r].flow = "host") =>
            LET h == req[r].hostname
                P == CertOf(r).ValidPrincipals
                strip == conf.StripSuffix # EmptyString
                            /\ EndsWith(h, conf.StripSuffix)
                k == IF strip THEN 1 ELSE 0
            IN /\ Len(P) = 1 + k + Len(AliasesOf(h))
               /\ P[1] = h
               /\ strip => P[2] \o conf.StripSuffix = h
               /\ \A i \in DOMAIN AliasesOf(h) : P[1 + k + i] = AliasesOf(h)[i]
               /\ (h = HostA /\ conf.StripSuffix = SuffixX
                        /\ conf.Aliases = SampleAliases)
                    => P = <<HostA, <<"h">>, AliasA1, AliasA2>>

\* h.x got a certificate under suffix ".x" and aliases [a.x, b.x]
HostPrincipalsWitness ==
    \E r \in Reqs :
        /\ Returned(r) /\ req[r].flow = "host" /\ req[r].hostname = HostA
        /\ conf.StripSuffix = SuffixX
        /\ conf.Aliases = SampleAliases
        /\ Len(CertOf(r).ValidPrincipals) = 4

\* C13: the principals of a USER certificate are exactly [username], also
\* when the username ends with the configured suffix or is a key of the
\* alias map.
UserPrincipals ==
    \A r \in Reqs :
        (Returned(r) /\ req[r].flow = "user") =>
            /\ CertOf(r).CertType = UserCert
            /\ CertOf(r).ValidPrincipals = <<req[r].header[UsernameHeader]>>

\* the user "h.x" got a certificate under suffix ".x" and aliases of h.x
UserPrincipalsWitness ==
    \E r \in Reqs :
        /\ Returned(r) /\ req[r].flow = "user"
        /\ req[r].header = [n \in {UsernameHeader} |-> HostA]
        /\ conf.StripSuffix = SuffixX
        /\ HostA \in DOMAIN conf.Aliases
        /\ Len(CertOf(r).ValidPrincipals) = 1

\* the extension names of the configuration
ConfiguredExtensions ==
    {conf.SSH.UserCertExtensions[i] : i \in DOMAIN conf.SSH.UserCertExtensions}

\* C14: a HOST certificate has no extensions whatever the configured list
\* is; a USER certificate has exactly the configured names as extension
\* keys (duplicates collapsed), each with the empty value, and none when the
\* list is empty.
ExtensionGating ==
    \A r \in Reqs :
        Returned(r) =>
            LET ext == CertOf(r).Permissions.Extensions IN
            /\ CertOf(r).CertType = HostCert => DOMAIN ext = {}
            /\ CertOf(r).CertType = UserCert =>
                /\ DOMAIN ext = ConfiguredExtensions
                /\ \A e \in DOMAIN ext : ext[e] = ""
            /\ conf.SSH.UserCertExtensions = << >> => DOMAIN ext = {}

\* a user certificate under a list of three names, two of them equal, has
\* two extensions
ExtensionGatingWitness ==
    \E r \in Reqs :
        /\ Returned(r) /\ CertOf(r).CertType = UserCert
        /\ Len(conf.SSH.UserCertExtensions) = 3
        /\ Cardinality(DOMAIN CertOf(r).Permissions.Extensions) = 2

\* the duration string configured for the type of the certificate
DurationStringOf(cert) ==
    IF cert.CertType = HostCert THEN conf.HostCertDuration
    ELSE conf.UserCertDuration

\* the configuration parser accepts a duration string that parses to a
\* positive duration
ConfigAccepts(s) == ParseDuration(s).err = Nil /\ ParseDuration(s).d > 0

\* C15: every signed certificate, of either type, whose duration string the
\* configuration parser accepts, has valid_after < valid_before, in the whole
\* seconds the certificate stores.
ValidityWindowOrdered ==
    \A r \in Reqs :
        (Returned(r) /\ ConfigAccepts(DurationStringOf(CertOf(r)))) =>
            CertOf(r).ValidAfter < CertOf(r).ValidBefore

\* the length of the certificate's validity window, in milliseconds
WindowMillis(cert) == (cert.ValidBefore - cert.ValidAfter) * 1000

\* certificate types that are neither HOST nor USER
OtherCertTypes == {0, 3}

\* C16 as stated: valid_before - valid_after is exactly the duration
\* configured for the certificate's type, valid_after is the time of the
\* request, and another certificate type has an error and no duration.
WindowIsExactlyDuration ==
    /\ \A r \in Reqs :
        Returned(r) =>
            /\ WindowMillis(CertOf(r)) = ParseDuration(DurationStringOf(CertOf(r))).d
            /\ CertOf(r).ValidAfter = Unix(now)
    /\ \A t \in OtherCertTypes :
        /\ getDurationForCertType(conf, t).err # Nil
        /\ getDurationForCertType(conf, t).d = 0

\* C16, amended: valid_after is the time of the request in whole seconds;
\* valid_before - valid_after differs from the duration configured for the
\* certificate's type by less than one second, and is exactly that duration
\* when it is a whole number of seconds (168 hours for "168h"); another
\* certificate type has an error and no duration.
WindowIsDurationInSeconds ==
    /\ \A r \in Reqs :
        Returned(r) =>
            LET d == ParseDuration(DurationStringOf(CertOf(r))).d
                w == WindowMillis(CertOf(r))
            IN /\ CertOf(r).ValidAfter = Unix(now)
               /\ w - d < 1000
               /\ d - w < 1000
               /\ d % 1000 = 0 => w = d
               /\ DurationStringOf(CertOf(r)) = Dur168h => w = 168 * 3600 * 1000
               /\ DurationStringOf(CertOf(r)) = Dur24h => w = 24 * 3600 * 1000
    /\ \A t \in OtherCertTypes :
        /\ getDurationForCertType(conf, t).err # Nil
        /\ getDurationForCertType(conf, t).d = 0

\* a host certificate of 168 hours under a user duration of 1.5 s
WindowIsDurationInSecondsWitness ==
    \E r \in Reqs :
        /\ Returned(r) /\ CertOf(r).CertType = HostCert
        /\ conf.HostCertDuration = Dur168h
        /\ conf.UserCertDuration = Dur1500ms
        /\ CertOf(r).ValidBefore - CertOf(r).ValidAfter = 168 * 3600

\* the transport evidence of the request authorizes its identity
Authorized(r) ==
    IF req[r].flow = "host"
    THEN req[r].chains # << >> /\ LeafMatches(req[r].chains, req[r].hostname)
    ELSE FromProxy(r) /\ ~NoUsername(r)

\* the number of response writes of the request
WriteCount(r) ==
    Cardinality({i \in DOMAIN req[r].trace : req[r].trace[i].ev = "write"})

\* the stages of sign
SignStages == {"nonce", "duration", "signature"}

\* C17: in either flow the stages run in order and stop at the first
\* failure: RecordIssuance is called only by an authorized request with a
\* parsed key, sign only after RecordIssuance returned a serial, a
\* certificate is written only after sign succeeded; a failed stage ends the
\* request; every ended request has exactly one response, a complete
\* certificate or an error status, never both.
PipelineFailsFast ==
    \A r \in Reqs :
        /\ req[r].recCalls > 0 =>
            /\ Authorized(r)
            /\ req[r].pubkey # NoKey
            /\ req[r].pubkey = readPubkey(req[r].body).pubkey
        /\ req[r].signCalls > 0 =>
            /\ req[r].recCalls = 1
            /\ req[r].id # 0
        /\ Returned(r) =>
            /\ req[r].signCalls = 1
            /\ req[r].failed = Nil
            /\ CertOf(r).Signature = "ca"
            /\ CertOf(r).Key = req[r].pubkey
        /\ req[r].failed # Nil =>
            /\ req[r].pc = "done"
            /\ req[r].respBody.kind = "error"
            /\ req[r].status >= StatusBadRequest
        /\ req[r].failed = "auth" =>
            req[r].body = IdleReq.body /\ req[r].recCalls = 0
        /\ req[r].failed \in {"auth", "readPubkey"} =>
            req[r].recCalls = 0 /\ req[r].signCalls = 0
        /\ req[r].failed = "record" => req[r].signCalls = 0
        /\ req[r].failed \in SignStages => req[r].signCalls = 1
        /\ WriteCount(r) = (IF req[r].pc = "done" THEN 1 ELSE 0)
        /\ req[r].pc = "done" => (Returned(r) <=> req[r].failed = Nil)
        /\ req[r].pc # "done" => req[r].status = 0 /\ req[r].respBody = NoBody

\* one request got its certificate and another failed in the signature
PipelineFailsFastWitness ==
    \E r1, r2 \in Reqs :
        /\ Returned(r1)
        /\ req[r2].failed = "signature"
        /\ req[r2].status = StatusInternalServerError
        /\ req[r2].recCalls = 1

\* the certificate type of the flow of the request
CertTypeOf(r) == IF req[r].flow = "host" THEN HostCert ELSE UserCert

\* the ledger record of the request
RecordOf(r) ==
    IssuanceRecord(req[r].id, CertTypeOf(r), IdentityOf(r), req[r].pubkey)

\* C18: a request whose RecordIssuance succeeded and whose nonce, duration
\* or signature then failed is answered 500 without a certificate, and its
\* ledger record stays in the ledger.
LedgerKeptOnLateFailure ==
    \A r \in Reqs :
        req[r].failed \in SignStages =>
            /\ RejectedWith(r, StatusInternalServerError)
            /\ req[r].id # 0
            /\ RecordOf(r) \in ledger

\* a recorded serial whose certificate was not delivered: the signature
\* failed
LedgerKeptOnLateFailureWitness ==
    \E r \in Reqs :
        /\ req[r].failed = "signature"
        /\ req[r].status = StatusInternalServerError
        /\ \E rec \in ledger : rec.serial = req[r].id
        /\ \A o \in Reqs : ~Returned(o)

\* C19: a request calls RecordIssuance at most once, and exactly once if it
\* returns a certificate; the ledger has at most one record per request that
\* called it; no step removes or changes a record, and a step adds at most
\* one.
LedgerAppendOnly ==
    /\ [](\A r \in Reqs :
            /\ req[r].recCalls <= 1
            /\ Returned(r) => req[r].recCalls = 1)
    /\ [](Cardinality(ledger)
            <= Cardinality({r \in Reqs : req[r].recCalls > 0}))
    /\ [][/\ ledger \subseteq ledger'
          /\ Cardinality(ledger') <= Cardinality(ledger) + 1]_vars

\* every request called RecordIssuance, and each call added a record
LedgerAppendOnlyWitness ==
    /\ \A r \in Reqs : req[r].recCalls = 1
    /\ Cardinality(ledger) = NumReqs
    /\ \E r \in Reqs : Returned(r)

\* C20: the key_id and the first principal of every returned certificate
\* are the identity authorized for its request, and the ledger record with
\* its serial has its certificate type, its identity and its public key,
\* which is the key of that request's body.
CertBindsRequest ==
    \A r \in Reqs :
        Returned(r) =>
            /\ Authorized(r)
            /\ CertOf(r).KeyId = IdentityOf(r)
            /\ CertOf(r).ValidPrincipals[1] = IdentityOf(r)
            /\ req[r].flow = "user" =>
                IdentityOf(r) = req[r].header[UsernameHeader]
            /\ CertOf(r).CertType = CertTypeOf(r)
            /\ CertOf(r).Key = ParseAuthorizedKey(req[r].body.fields).pubkey
            /\ \E rec \in ledger :
                /\ rec.serial = CertOf(r).Serial
                /\ rec.cert_type = CertOf(r).CertType
                /\ rec.identity = CertOf(r).KeyId
                /\ rec.public_key = CertOf(r).Key

\* a host and a user, with different keys, got their certificates
CertBindsRequestWitness ==
    \E r1, r2 \in Reqs :
        /\ Returned(r1) /\ req[r1].flow = "host"
        /\ Returned(r2) /\ req[r2].flow = "user"
        /\ CertOf(r1).KeyId # CertOf(r2).KeyId
        /\ CertOf(r1).Key # CertOf(r2).Key

====
